---- MODULE Spec2Model ----
(***************************************************************************)
(* A model of the traced_result crate (src/src/lib.rs): TracedError, a     *)
(* wrapper of an error value and the list of source locations it passed,   *)
(* and TracedResult, a Result whose `?` operator (Try::branch followed by  *)
(* FromResidual::from_residual) appends the location of the `?` to that    *)
(* list.                                                                   *)
(*                                                                         *)
(* Values.  A source location is a record [file, line, col].  An error     *)
(* value is [plain |-> s] (the narrow error type R), [wide |-> s] (the     *)
(* broader type E with E: From<R>) or a TracedError [inner, trace] (the    *)
(* generic parameter E of TracedError<E> may itself be a TracedError).     *)
(* A slot of the program holds one value, tagged by `kind`:                *)
(*    None      nothing (not yet made, or consumed)                        *)
(*    TOk/TErr  TracedResult::Ok(val) / TracedResult::Err(err)             *)
(*    Continue  ControlFlow::Continue(val)                                 *)
(*    Break     ControlFlow::Break(res), res the residual TracedResult     *)
(*    ROk/RErr  std Result::Ok(val) / Result::Err(err)                     *)
(*    Panic     a panic was raised (unreachable!())                        *)
(***************************************************************************)
EXTENDS Integers, Sequences, FiniteSets, TLC

\* ------------------------------------------------------------------ bounds
\* The longest list of locations one slot may carry, nested errors included.
MaxTrace == 3
\* Success payloads are 0..MaxVal.
MaxVal == 1

\* ------------------------------------------------------------------ inputs
\* The call sites of the program under test (what Location::caller() returns).
Locs ==
  { [file |-> "a.rs", line |-> "10", col |-> "5"],
    [file |-> "a.rs", line |-> "20", col |-> "9"],
    [file |-> "b.rs", line |-> "30", col |-> "13"] }

\* The call sites of one file.
Sites == {l \in Locs : l.file = "a.rs"}

\* The slots: two error instances alive at the same time.
Ids == {"a", "b"}

\* The values of the narrow error type R.
Errs == {"Bad", "Worse"}

Vals == 0..MaxVal

\* The closures handed to map.
MapFns == {"inc", "zero"}

\* The closures handed to map_err.
ErrFns == {"swap", "to_bad"}

\* The From impl the types select at a `?`: From<T> for T, or From<R> for E.
Convs == {"same", "widen"}

\* ------------------------------------------------------------------ values
Plain(s) == [plain |-> s]

Wide(s) == [wide |-> s]

IsPlain(x) == DOMAIN x = {"plain"}

IsWide(x) == DOMAIN x = {"wide"}

IsTraced(x) == DOMAIN x = {"inner", "trace"}

None == [kind |-> "None"]

TOk(v) == [kind |-> "TOk", val |-> v]

TErr(e) == [kind |-> "TErr", err |-> e]

ROk(v) == [kind |-> "ROk", val |-> v]

RErr(e) == [kind |-> "RErr", err |-> e]

Continue(v) == [kind |-> "Continue", val |-> v]

Break(r) == [kind |-> "Break", res |-> r]

Panic == [kind |-> "Panic"]

\* A caller's closures, applied to a success payload and to an error value.
ApplyT(f, v) == IF f = "inc" THEN (v + 1) % (MaxVal + 1) ELSE 0

ApplyE(f, x) ==
  IF f = "to_bad" THEN Plain("Bad")
  ELSE IF IsPlain(x) THEN Plain(IF x.plain = "Bad" THEN "Worse" ELSE "Bad")
  ELSE x

\* From::from on the inner value: the identity, or the widening R -> E.
FromInner(conv, x) == IF conv = "widen" /\ IsPlain(x) THEN Wide(x.plain) ELSE x

\* ------------------------------------------------------------- TracedError
\* TracedError::new: the caller's location is the only record.
\* new, forgetting to record its caller.
new_no_site(inner, caller) == [trace |-> <<>>, inner |-> inner]

new(inner, caller) == [trace |-> <<caller>>, inner |-> inner]

into_inner(self) == self.inner

trace(self) == self.trace

split(self) == <<self.inner, self.trace>>

\* impl From<E> for TracedError<E>
from_E(value, caller) == new(value, caller)

\* ------------------------------------------------------------ TracedResult
\* into_result, rebuilding the error with its construction site only.
into_result_rebuilt(self) ==
  IF self.kind = "TOk" THEN ROk(self.val)
  ELSE RErr([inner |-> self.err.inner, trace |-> <<Head(self.err.trace)>>])

into_result(self) ==
  IF self.kind = "TOk" THEN ROk(self.val) ELSE RErr(self.err)

discard_call_stack(self) ==
  IF self.kind = "TOk" THEN ROk(self.val) ELSE RErr(into_inner(self.err))

is_ok(self) == self.kind = "TOk"

is_err(self) == self.kind = "TErr"

\* map, passing the payload through without calling the closure.
map_skipped(self, f) ==
  IF self.kind = "TOk"
  THEN [ret |-> TOk(self.val), calls |-> <<>>]
  ELSE [ret |-> TErr(self.err), calls |-> <<>>]

\* map_err, rebuilding the error with its construction site only.
map_err_rebuilt(self, f) ==
  IF self.kind = "TOk"
  THEN [ret |-> TOk(self.val), calls |-> <<>>]
  ELSE [ret |-> TErr([inner |-> ApplyE(f, self.err.inner),
                      trace |-> <<Head(self.err.trace)>>]),
        calls |-> <<self.err.inner>>]

\* map and map_err return the new value and the arguments their closure was
\* called with.
map(self, f) ==
  IF self.kind = "TOk"
  THEN [ret |-> TOk(ApplyT(f, self.val)), calls |-> <<self.val>>]
  ELSE [ret |-> TErr(self.err), calls |-> <<>>]

map_err(self, f) ==
  IF self.kind = "TOk"
  THEN [ret |-> TOk(self.val), calls |-> <<>>]
  ELSE [ret |-> TErr([inner |-> ApplyE(f, self.err.inner),
                      trace |-> self.err.trace]),
        calls |-> <<self.err.inner>>]

\* impl Try for TracedResult
from_output(output) == TOk(output)

\* branch, inserting the call site at the front of the trace.
branch_prepend(self, caller) ==
  IF self.kind = "TOk"
  THEN Continue(self.val)
  ELSE Break(TErr([self.err EXCEPT !.trace = <<caller>> \o @]))

\* branch, skipping a call site equal to the newest record.
branch_dedup(self, caller) ==
  IF self.kind = "TOk"
  THEN Continue(self.val)
  ELSE Break(TErr([self.err EXCEPT !.trace =
                     IF @[Len(@)] = caller THEN @ ELSE Append(@, caller)]))

\* branch, breaking with the residual it was given a success in.
branch_swapped(self, caller) ==
  IF self.kind = "TErr"
  THEN Continue(0)
  ELSE Break(TOk(self.val))

branch(self, caller) ==
  IF self.kind = "TOk"
  THEN Continue(self.val)
  ELSE LET branched_at == caller
           error == [self.err EXCEPT !.trace = Append(@, branched_at)]
       IN  Break(TErr(error))

\* from_residual, recording the conversion as one more site.
from_residual_records(residual, conv) ==
  IF residual.kind = "TErr"
  THEN TErr([trace |-> Append(residual.err.trace,
                              residual.err.trace[Len(residual.err.trace)]),
             inner |-> FromInner(conv, residual.err.inner)])
  ELSE Panic

\* impl FromResidual<TracedResult<Infallible, R>> for TracedResult<T, E>
from_residual(residual, conv) ==
  IF residual.kind = "TErr"
  THEN TErr([trace |-> residual.err.trace,
             inner |-> FromInner(conv, residual.err.inner)])
  ELSE Panic

\* From<Result>, taking an error that is a TracedError as it is.
from_Result_unwrapped(value, caller) ==
  IF value.kind = "ROk" THEN TOk(value.val)
  ELSE IF IsTraced(value.err) THEN TErr(value.err)
  ELSE TErr(from_E(value.err, caller))

\* impl From<Result<T, E>> for TracedResult<T, E>
from_Result(value, caller) ==
  IF value.kind = "ROk" THEN TOk(value.val)
  ELSE TErr(from_E(value.err, caller))

\* impl From<TracedResult<T, E>> for Result<T, TracedError<E>>
from_TracedResult(value) == into_result(value)

\* `?` on a std Result<T, F> inside a function returning Result<U, G>, as the
\* standard library defines it: Ok continues with its payload, Err returns
\* Err(From::from(e)).  G = F takes From<T> for T; G = TracedError<F> takes
\* the crate's From<E> for TracedError<E>, which records the `?` site.
std_question(self, conv, caller) ==
  IF self.kind = "ROk" THEN self
  ELSE RErr(IF conv = "lift" THEN from_E(self.err, caller) ELSE self.err)

\* ----------------------------------------------------------------- Display
\* A Formatter: the text written so far, and how many more writes its sink
\* accepts before it reports fmt::Error.
Formatter(room) == [buf |-> <<>>, room |-> room]

write(f, text) ==
  IF f.room = 0 THEN [ret |-> "Err", f |-> f]
  ELSE [ret |-> "Ok", f |-> [buf |-> f.buf \o text, room |-> f.room - 1]]

\* The Display text of an error value that is not a TracedError.
Text(x) == IF IsPlain(x) THEN <<x.plain>> ELSE <<"Wide(", x.wide, ")">>

\* writeln!(f, "At ({line}:{col}) in {file}")
Line(location) ==
  <<"At (", location.line, ":", location.col, ") in ", location.file, "\n">>

Rev(s) == [k \in 1..Len(s) |-> s[Len(s) + 1 - k]]

\* for location in locations { writeln!(...)?; }  Ok(())
RECURSIVE WriteLocations(_, _)
WriteLocations(locations, f) ==
  IF locations = <<>> THEN [ret |-> "Ok", f |-> f]
  ELSE LET r == write(f, Line(Head(locations)))
       IN  IF r.ret = "Err" THEN r ELSE WriteLocations(Tail(locations), r.f)

\* fmt, walking the trace oldest first.
RECURSIVE fmt_oldest_first(_, _)
fmt_oldest_first(self, f) ==
  LET r == IF IsTraced(self.inner) THEN fmt_oldest_first(self.inner, f)
           ELSE write(f, Text(self.inner))
  IN  IF r.ret = "Err" THEN r ELSE WriteLocations(self.trace, r.f)

\* impl Display for TracedError<E>; the inner value may be a TracedError.
RECURSIVE fmt(_, _)
fmt(self, f) ==
  LET r == IF IsTraced(self.inner) THEN fmt(self.inner, f)
           ELSE write(f, Text(self.inner))
  IN  IF r.ret = "Err" THEN r ELSE WriteLocations(Rev(self.trace), r.f)

\* ------------------------------------------------------------------- state
VARIABLES
  vals,   \* what each slot holds
  made,   \* per slot, the history of each TracedError it carries, outermost
          \* first: the sites it was made at and propagated through, oldest
          \* first; the value it first wrapped; whether that value has been
          \* left untouched
  last    \* the operation just executed: its name, its slot, the closure it
          \* was given and the arguments that closure was called with, what
          \* it wrote

vars == <<vals, made, last>>

NoOut == [ret |-> "None", buf |-> <<>>]

Op(name, i) ==
  [op |-> name, id |-> i, fn |-> "none", calls |-> <<>>, out |-> NoOut]

Made(inner, site) == [sites |-> <<site>>, wrapped |-> inner, pure |-> TRUE]

\* The error a slot carries, if any.
HasErr(v) == v.kind \in {"TErr", "RErr"} \/ (v.kind = "Break" /\ v.res.kind = "TErr")

ErrOf(v) == IF v.kind = "Break" THEN v.res.err ELSE v.err

HasTraced(v) == HasErr(v) /\ IsTraced(ErrOf(v))

\* The number of location records in an error value, nested ones included.
RECURSIVE Records(_)
Records(x) == IF IsTraced(x) THEN Len(x.trace) + Records(x.inner) ELSE 0

Room(i) == IF HasErr(vals[i]) THEN Records(ErrOf(vals[i])) < MaxTrace ELSE TRUE

Init ==
  /\ vals = [i \in Ids |-> None]
  /\ made = [i \in Ids |-> <<>>]
  /\ last = Op("init", "a")

\* TracedError::new(e), returned as TracedResult::Err.
New(i, e, loc) ==
  /\ vals[i].kind = "None"
  /\ vals' = [vals EXCEPT ![i] = TErr(new(Plain(e), loc))]
  /\ made' = [made EXCEPT ![i] = <<Made(Plain(e), loc)>>]
  /\ last' = Op("new", i)

\* A plain error converted where a TracedError is expected (e.into()).
FromE(i, e, loc) ==
  /\ vals[i].kind = "None"
  /\ vals' = [vals EXCEPT ![i] = TErr(from_E(Plain(e), loc))]
  /\ made' = [made EXCEPT ![i] = <<Made(Plain(e), loc)>>]
  /\ last' = Op("from_E", i)

\* Try::from_output: a function returns a success, from scratch or after a
\* `?` that continued.
FromOutput(i, v) ==
  /\ IF vals[i].kind = "Continue" THEN v = vals[i].val ELSE vals[i].kind = "None"
  /\ vals' = [vals EXCEPT ![i] = from_output(v)]
  /\ UNCHANGED made
  /\ last' = Op("from_output", i)

\* A function of the caller returns a std Result.
StdResult(i, r) ==
  /\ vals[i].kind = "None"
  /\ vals' = [vals EXCEPT ![i] = r]
  /\ UNCHANGED made
  /\ last' = Op("std_result", i)

\* The first half of `?` on a TracedResult, at call site loc.
Branch(i, loc) ==
  /\ vals[i].kind \in {"TOk", "TErr"}
  /\ Room(i)
  /\ vals' = [vals EXCEPT ![i] = branch(vals[i], loc)]
  /\ made' = [made EXCEPT ![i] =
                IF is_err(vals[i]) THEN [@ EXCEPT ![1].sites = Append(@, loc)] ELSE @]
  /\ last' = Op("branch", i)

\* The second half: the enclosing function returns from_residual(residual).
FromResidual(i, conv) ==
  /\ vals[i].kind = "Break"
  /\ IF conv = "widen"
     THEN vals[i].res.kind = "TErr" /\ IsPlain(vals[i].res.err.inner)
     ELSE TRUE
  /\ vals' = [vals EXCEPT ![i] = from_residual(vals[i].res, conv)]
  /\ made' = [made EXCEPT ![i] =
                IF @ = <<>> THEN @ ELSE [@ EXCEPT ![1].pure = @ /\ conv = "same"]]
  /\ last' = Op("from_residual", i)

Map(i, f) ==
  /\ vals[i].kind \in {"TOk", "TErr"}
  /\ LET r == map(vals[i], f)
     IN  /\ vals' = [vals EXCEPT ![i] = r.ret]
         /\ last' = [Op("map", i) EXCEPT !.fn = f, !.calls = r.calls]
  /\ UNCHANGED made

MapErr(i, f) ==
  /\ vals[i].kind \in {"TOk", "TErr"}
  /\ LET r == map_err(vals[i], f)
     IN  /\ vals' = [vals EXCEPT ![i] = r.ret]
         /\ last' = [Op("map_err", i) EXCEPT !.fn = f, !.calls = r.calls]
  /\ made' = [made EXCEPT ![i] =
                IF is_err(vals[i])
                THEN <<[@[1] EXCEPT !.pure = FALSE]>>
                       \o (IF IsTraced(ApplyE(f, vals[i].err.inner)) THEN Tail(@) ELSE <<>>)
                ELSE @]

IntoResult(i) ==
  /\ vals[i].kind \in {"TOk", "TErr"}
  /\ vals' = [vals EXCEPT ![i] = into_result(vals[i])]
  /\ UNCHANGED made
  /\ last' = Op("into_result", i)

FromTracedResult(i) ==
  /\ vals[i].kind \in {"TOk", "TErr"}
  /\ vals' = [vals EXCEPT ![i] = from_TracedResult(vals[i])]
  /\ UNCHANGED made
  /\ last' = Op("from_TracedResult", i)

DiscardCallStack(i) ==
  /\ vals[i].kind \in {"TOk", "TErr"}
  /\ vals' = [vals EXCEPT ![i] = discard_call_stack(vals[i])]
  /\ made' = [made EXCEPT ![i] = IF is_err(vals[i]) THEN Tail(@) ELSE @]
  /\ last' = Op("discard_call_stack", i)

\* A std Result converted into a TracedResult at call site loc: its error,
\* whatever it is, is wrapped as a new TracedError.
FromResult(i, loc) ==
  /\ vals[i].kind \in {"ROk", "RErr"}
  /\ Room(i)
  /\ vals' = [vals EXCEPT ![i] = from_Result(vals[i], loc)]
  /\ made' = [made EXCEPT ![i] =
                IF vals[i].kind = "RErr" THEN <<Made(vals[i].err, loc)>> \o @ ELSE @]
  /\ last' = Op("from_Result", i)

\* `?` on a std Result at call site loc.
StdQuestion(i, conv, loc) ==
  /\ vals[i].kind \in {"ROk", "RErr"}
  /\ conv \in {"same", "lift"}
  /\ IF conv = "lift" THEN vals[i].kind = "RErr" /\ Room(i) ELSE TRUE
  /\ vals' = [vals EXCEPT ![i] = std_question(vals[i], conv, loc)]
  /\ made' = [made EXCEPT ![i] =
                IF conv = "lift" THEN <<Made(vals[i].err, loc)>> \o @ ELSE @]
  /\ last' = Op("std_question", i)

\* The error of slot i is rendered into a sink that takes `room` writes.
Fmt(i, room) ==
  /\ HasTraced(vals[i])
  /\ vals[i].kind # "Break"
  /\ LET r == fmt(vals[i].err, Formatter(room))
     IN  last' = [Op("fmt", i) EXCEPT !.out = [ret |-> r.ret, buf |-> r.f.buf]]
  /\ UNCHANGED <<vals, made>>

\* The value is unwrapped, matched on, split or dropped.
Consume(i) ==
  /\ vals[i].kind \notin {"None", "Break", "Continue"}
  /\ vals' = [vals EXCEPT ![i] = None]
  /\ made' = [made EXCEPT ![i] = <<>>]
  /\ last' = Op("consume", i)

\* Every operation of the crate that makes, changes or consumes a value, on
\* slot i, called from the sites S.
Step(i, S) ==
  \/ \E e \in Errs, loc \in S : New(i, e, loc)
  \/ \E e \in Errs, loc \in S : FromE(i, e, loc)
  \/ \E v \in Vals : FromOutput(i, v)
  \/ \E r \in {ROk(v) : v \in Vals} \cup {RErr(Plain(e)) : e \in Errs} : StdResult(i, r)
  \/ \E loc \in S : Branch(i, loc)
  \/ \E conv \in Convs : FromResidual(i, conv)
  \/ \E f \in MapFns : Map(i, f)
  \/ \E f \in ErrFns : MapErr(i, f)
  \/ IntoResult(i)
  \/ FromTracedResult(i)
  \/ DiscardCallStack(i)
  \/ \E loc \in S : FromResult(i, loc)
  \/ \E conv \in {"same", "lift"}, loc \in S : StdQuestion(i, conv, loc)
  \/ Consume(i)

\* One value taken through these operations, from the call sites of one file.
Next == Step("a", Sites)

Spec == Init /\ [][Next]_vars

\* Two errors alive at once, each made, propagated and consumed.
NextPair ==
  \E i \in Ids :
    \/ \E e \in Errs, loc \in Sites : New(i, e, loc)
    \/ \E loc \in Sites : Branch(i, loc)
    \/ \E conv \in Convs : FromResidual(i, conv)
    \/ Consume(i)

SpecPair == Init /\ [][NextPair]_vars

\* One error made, propagated from any call site, possibly wrapped a second
\* time, and rendered.
NextFmt ==
  \/ \E e \in Errs, loc \in Locs : New("a", e, loc)
  \/ \E loc \in Locs : Branch("a", loc)
  \/ \E conv \in Convs : FromResidual("a", conv)
  \/ IntoResult("a")
  \/ \E loc \in Locs : FromResult("a", loc)
  \/ \E room \in 0..(MaxTrace + 1) : Fmt("a", room)
  \/ Consume("a")

SpecFmt == Init /\ [][NextFmt]_vars

\* ================================================================== claims
IsPrefix(s, t) == Len(s) <= Len(t) /\ SubSeq(t, 1, Len(s)) = s

Ran(name, i) == last.op = name /\ last.id = i

\* C1: an error made by new (or lifted from a plain error) and propagated N
\* times carries exactly the construction site followed by the N propagation
\* sites, oldest first; and a propagation step (branch, from_residual) keeps
\* every record the trace already had, in place.
RECURSIVE TracesAre(_, _)
TracesAre(x, hs) ==
  IF IsTraced(x)
  THEN hs # <<>> /\ trace(x) = Head(hs).sites /\ TracesAre(x.inner, Tail(hs))
  ELSE hs = <<>>

C1_MonotonicAppend ==
  /\ [](\A i \in Ids :
          IF HasErr(vals[i]) THEN TracesAre(ErrOf(vals[i]), made[i])
          ELSE made[i] = <<>>)
  /\ [][\A i \in Ids :
          (/\ last'.op \in {"branch", "from_residual"}
           /\ last'.id = i
           /\ HasTraced(vals[i])
           /\ HasTraced(vals'[i]))
          => IsPrefix(ErrOf(vals[i]).trace, ErrOf(vals'[i]).trace)]_vars

C1_Witness ==
  /\ Ran("from_residual", "a")
  /\ vals["a"].kind = "TErr"
  /\ Len(vals["a"].err.trace) = 3
  /\ vals["a"].err.trace[1] # vals["a"].err.trace[2]
  /\ vals["a"].err.trace[3] = vals["a"].err.trace[1]

\* C2: every TracedError in existence, at every level of nesting, has at
\* least one record in its trace.
RECURSIVE NonEmptyTraces(_)
NonEmptyTraces(x) ==
  IF IsTraced(x) THEN Len(x.trace) >= 1 /\ NonEmptyTraces(x.inner) ELSE TRUE

C2_NonEmptyTrace ==
  \A i \in Ids : HasErr(vals[i]) => NonEmptyTraces(ErrOf(vals[i]))

C2_Witness ==
  /\ Ran("map_err", "a")
  /\ vals["a"].kind = "TErr"
  /\ IsTraced(vals["a"].err.inner)

\* C3: from_residual converts the inner value only and returns the trace as
\* branch left it, whether the error type changes or not; branch on a failure
\* adds exactly one record: one propagation adds exactly one record.
C3_ConversionAddsNoRecord ==
  [][\A i \in Ids :
       /\ (last'.op = "from_residual" /\ last'.id = i /\ vals[i].res.kind = "TErr")
          => /\ vals'[i].kind = "TErr"
             /\ vals'[i].err.trace = vals[i].res.err.trace
             /\ vals'[i].err.inner \in
                  {vals[i].res.err.inner, FromInner("widen", vals[i].res.err.inner)}
       /\ (last'.op = "branch" /\ last'.id = i /\ vals[i].kind = "TErr")
          => /\ vals'[i].kind = "Break"
             /\ Len(vals'[i].res.err.trace) = Len(vals[i].err.trace) + 1]_vars

C3_Witness ==
  /\ Ran("from_residual", "a")
  /\ vals["a"].kind = "TErr"
  /\ IsWide(vals["a"].err.inner)
  /\ Len(vals["a"].err.trace) = 2
  /\ ~made["a"][1].pure

\* C4: into_result (and the From conversion that calls it) returns Err with
\* the same inner value and the same trace, or Ok with the same payload; and a
\* later `?` on the std Result leaves that TracedError as it is, either
\* returned unchanged or kept whole as the inner value of the error the
\* enclosing function returns.
C4_FreezeOnConversion ==
  [][\A i \in Ids :
       /\ (last'.op \in {"into_result", "from_TracedResult"} /\ last'.id = i)
          => IF vals[i].kind = "TErr"
             THEN /\ vals'[i].kind = "RErr"
                  /\ vals'[i].err.inner = vals[i].err.inner
                  /\ vals'[i].err.trace = vals[i].err.trace
             ELSE /\ vals'[i].kind = "ROk"
                  /\ vals'[i].val = vals[i].val
       /\ (/\ last'.op = "std_question"
           /\ last'.id = i
           /\ vals[i].kind = "RErr"
           /\ IsTraced(vals[i].err))
          => /\ vals'[i].kind = "RErr"
             /\ \/ vals'[i].err = vals[i].err
                \/ vals'[i].err.inner = vals[i].err]_vars

C4_Witness ==
  /\ Ran("std_question", "a")
  /\ vals["a"].kind = "RErr"
  /\ IsTraced(vals["a"].err)
  /\ Len(vals["a"].err.trace) = 2
  /\ made["a"][1].sites = vals["a"].err.trace

\* C5 as stated: a Result<T, TracedError<E>> converted (back) into a
\* TracedResult carries the inner value and the trace the TracedError had.
C5_RoundTripPreserves ==
  \A i \in Ids :
    (/\ Ran("from_Result", i)
     /\ vals[i].kind = "TErr"
     /\ IsTraced(made[i][1].wrapped))
    => /\ vals[i].err.inner = made[i][1].wrapped.inner
       /\ vals[i].err.trace = made[i][1].wrapped.trace

\* C5 amended: into_result keeps the payload, or the inner value and the
\* trace, exactly; From<Result> keeps an Ok payload, and wraps the error of an
\* Err, whole and unchanged, as the inner value of a new TracedError whose
\* trace is the one record of the conversion's call site.
C5_ConversionsLossless ==
  [][\A i \in Ids :
       /\ (last'.op \in {"into_result", "from_TracedResult"} /\ last'.id = i)
          => IF vals[i].kind = "TErr"
             THEN vals'[i].kind = "RErr" /\ vals'[i].err = vals[i].err
             ELSE vals'[i].kind = "ROk" /\ vals'[i].val = vals[i].val
       /\ (last'.op = "from_Result" /\ last'.id = i)
          => IF vals[i].kind = "RErr"
             THEN /\ vals'[i].kind = "TErr"
                  /\ vals'[i].err.inner = vals[i].err
                  /\ vals'[i].err.trace = made'[i][1].sites
                  /\ Len(vals'[i].err.trace) = 1
             ELSE /\ vals'[i].kind = "TOk"
                  /\ vals'[i].val = vals[i].val]_vars

C5_Witness ==
  /\ Ran("from_Result", "a")
  /\ vals["a"].kind = "TErr"
  /\ IsTraced(vals["a"].err.inner)
  /\ Len(vals["a"].err.inner.trace) = 2
  /\ Len(vals["a"].err.trace) = 1

\* C6: map_err(f) on a failure gives a failure with inner value f(inner) and
\* the very same trace, f called once; on a success it gives the same success
\* and f is not called.
C6_MapErrKeepsTrace ==
  [][\A i \in Ids :
       (last'.op = "map_err" /\ last'.id = i)
       => IF vals[i].kind = "TErr"
          THEN /\ vals'[i].kind = "TErr"
               /\ vals'[i].err.inner = ApplyE(last'.fn, vals[i].err.inner)
               /\ vals'[i].err.trace = vals[i].err.trace
               /\ last'.calls = <<vals[i].err.inner>>
          ELSE /\ vals'[i] = vals[i]
               /\ last'.calls = <<>>]_vars

C6_Witness ==
  /\ Ran("map_err", "a")
  /\ vals["a"].kind = "TErr"
  /\ Len(vals["a"].err.trace) = 3
  /\ vals["a"].err.inner # made["a"][1].wrapped

\* C7: map(f) on Success(v) gives Success(f(v)); on a failure it gives the
\* same failure, inner value and trace, and f is not called.
C7_Map ==
  [][\A i \in Ids :
       (last'.op = "map" /\ last'.id = i)
       => IF vals[i].kind = "TOk"
          THEN /\ vals'[i].kind = "TOk"
               /\ vals'[i].val = ApplyT(last'.fn, vals[i].val)
               /\ last'.calls = <<vals[i].val>>
          ELSE /\ vals'[i] = vals[i]
               /\ last'.calls = <<>>]_vars

C7_Witness ==
  /\ Ran("map", "a")
  /\ last.fn = "inc"
  /\ last.calls = <<0>>
  /\ vals["a"] = TOk(1)

\* C8: a rendering that succeeds is the inner value's own text followed by
\* one `At (line:col) in file` line per record, newest record first,
\* construction site last; one that fails has written a proper prefix of it.
AtLine(l) == <<"At (", l.line, ":", l.col, ") in ", l.file, "\n">>

RECURSIVE NewestFirst(_)
NewestFirst(t) ==
  IF t = <<>> THEN <<>>
  ELSE AtLine(t[Len(t)]) \o NewestFirst(SubSeq(t, 1, Len(t) - 1))

RECURSIVE Rendering(_)
Rendering(e) ==
  (IF IsTraced(e.inner) THEN Rendering(e.inner) ELSE Text(e.inner))
    \o NewestFirst(e.trace)

C8_DisplayNewestFirst ==
  last.op = "fmt"
  => LET e == vals[last.id].err
     IN  IF last.out.ret = "Ok"
         THEN /\ last.out.buf = Rendering(e)
              /\ Cardinality({k \in 1..Len(last.out.buf) : last.out.buf[k] = "\n"})
                   = Records(e)
         ELSE /\ IsPrefix(last.out.buf, Rendering(e))
              /\ last.out.buf # Rendering(e)

C8_Witness ==
  /\ last.op = "fmt"
  /\ last.out.ret = "Ok"
  /\ vals["a"].kind = "TErr"
  /\ vals["a"].err.inner = Plain("Bad")
  /\ [k \in 1..Len(vals["a"].err.trace) |-> vals["a"].err.trace[k].line]
       = <<"10", "20", "30">>
  /\ last.out.buf =
       <<"Bad", "At (", "30", ":", "13", ") in ", "b.rs", "\n",
                "At (", "20", ":", "9", ") in ", "a.rs", "\n",
                "At (", "10", ":", "5", ") in ", "a.rs", "\n">>

\* C9: a propagation appends its call site even when the trace already holds
\* that site, so the trace grows by one each time; and it changes the slot it
\* acts on only, the other error keeping its value and its trace.
C9_NoDedupNoSharing ==
  [][\A i \in Ids :
       (last'.op = "branch" /\ last'.id = i /\ vals[i].kind = "TErr")
       => /\ vals'[i].kind = "Break"
          /\ vals'[i].res.err.trace
               = Append(vals[i].err.trace, made'[i][1].sites[Len(made'[i][1].sites)])
          /\ \A j \in Ids \ {i} : vals'[j] = vals[j]]_vars

C9_Witness ==
  /\ Ran("branch", "a")
  /\ HasTraced(vals["a"])
  /\ HasTraced(vals["b"])
  /\ \E l \in Sites :
       /\ ErrOf(vals["a"]).trace = <<l, l, l>>
       /\ ErrOf(vals["b"]).trace = <<l, l>>

\* C10: propagation neither recovers nor invents an error: branch on
\* Success(v) continues with v and leaves the history alone; branch on a
\* failure breaks with a failure residual; from_residual never panics and
\* returns a failure; and an error that was neither widened nor mapped still
\* carries the value it first wrapped.
C10_PropagationForwards ==
  [][\A i \in Ids :
       /\ vals'[i].kind # "Panic"
       /\ (last'.op = "branch" /\ last'.id = i)
          => IF vals[i].kind = "TOk"
             THEN vals'[i] = Continue(vals[i].val) /\ made'[i] = made[i]
             ELSE vals'[i].kind = "Break" /\ vals'[i].res.kind = "TErr"
       /\ (last'.op = "from_residual" /\ last'.id = i)
          => vals'[i].kind = "TErr"
       /\ (HasTraced(vals'[i]) /\ made'[i][1].pure)
          => ErrOf(vals'[i]).inner = made'[i][1].wrapped]_vars

C10_Witness ==
  /\ Ran("from_residual", "a")
  /\ vals["a"].kind = "TErr"
  /\ made["a"][1].pure
  /\ Len(vals["a"].err.trace) = 3
  /\ vals["a"].err.inner = made["a"][1].wrapped
====
